---- MODULE Spec2Model ----
(***************************************************************************)
(* Model of apps/persons/services.py: PersonService.find_matching_group,   *)
(* PersonService.create_person (one database transaction per call) and     *)
(* PersonService.get_person_as_of, over a store of groups, person rows,    *)
(* history rows and change sets.                                           *)
(*                                                                         *)
(* create_person runs under @transaction.atomic with no explicit locking  *)
(* and no isolation level set by the code, so the model gives each call    *)
(* statement-level READ COMMITTED visibility (the committed rows plus the  *)
(* call's own uncommitted writes), the row lock an UPDATE takes, and a     *)
(* rollback that may happen at any statement.                              *)
(***************************************************************************)
EXTENDS Integers, FiniteSets, Sequences, TLC

\* ---------------------------------------------------------------- bounds
MaxCalls == 3          \* create_person calls begun in one behaviour
MaxTime == 3           \* largest value timezone.now() returns
MaxFails == 1          \* create_person calls that raise in one behaviour

\* ---------------------------------------------------------------- values
None == "None"         \* Python None / SQL NULL in an attribute
NoGroup == 0           \* find_matching_group's None result (ids start at 1)
NoChange == 0          \* change_set = None
Male == "M"            \* stands for the Cyrillic letter of line 40
Procs == {1, 2}        \* concurrent callers of create_person
Missing == "Missing"   \* a key the person_data dict does not have

\* Snapshots submitted to create_person.
TxSnapshots ==
  [last_name : {"Ivanov", "Petrov"}, first_name : {"Ivan"},
   middle_name : {None}, birth_date : {"d1"},
   gender : {Male, "F"}, address : {"a1"},
   phone : {None}, email : {None}]

\* Snapshots and stored rows find_matching_group is exercised on.
MatchSnapshots ==
  [last_name : {"Ivanov", "Petrov"}, first_name : {"Ivan", "Anna"},
   middle_name : {None, "P"}, birth_date : {"d1"},
   gender : {Male, "F"}, address : {"a1", "a2"},
   phone : {None, "", "555"}, email : {None, "", "e1"}]

\* Snapshots of the two completed calls a pair store comes from, and of a
\* further call made on it: the address and the phone vary.
PairSnapshots ==
  [last_name : {"Ivanov", "Petrov"}, first_name : {"Ivan"},
   middle_name : {None}, birth_date : {"d1"},
   gender : {Male, "F"}, address : {"a1", "a2"},
   phone : {None, "555"}, email : {None}]

\* Snapshots without a key find_matching_group subscripts.
InvalidSnapshots ==
  {[last_name |-> "Ivanov", first_name |-> "Ivan", middle_name |-> None,
    birth_date |-> "d1", gender |-> Missing, address |-> "a1",
    phone |-> None, email |-> None],
   [last_name |-> "Ivanov", first_name |-> Missing, middle_name |-> None,
    birth_date |-> "d1", gender |-> "F", address |-> "a1",
    phone |-> None, email |-> None],
   [last_name |-> "Ivanov", first_name |-> "Ivan", middle_name |-> None,
    birth_date |-> "d1", gender |-> "F", address |-> Missing,
    phone |-> None, email |-> None],
   [last_name |-> Missing, first_name |-> "Ivan", middle_name |-> None,
    birth_date |-> "d1", gender |-> Male, address |-> "a1",
    phone |-> None, email |-> None]}

VARIABLES
  groups,      \* committed PersonGroup ids
  persons,     \* committed Person rows
  history,     \* committed PersonHistory rows
  changes,     \* committed ChangeSet ids
  seq,         \* the tables' id sequences (not rolled back)
  clock,       \* last value timezone.now() returned
  calls,       \* create_person calls begun so far
  fails,       \* create_person calls that raised so far
  tx,          \* per caller: position in create_person, locals, pending writes
  query        \* last find_matching_group call made on its own: <<snapshot, result>>

vars == <<groups, persons, history, changes, seq, clock, calls, fails, tx,
          query>>
store == <<groups, persons, history, changes>>

\* ---------------------------------------------------------------- rows
Attrs(r) ==
  [last_name |-> r.last_name, first_name |-> r.first_name,
   middle_name |-> r.middle_name, birth_date |-> r.birth_date,
   gender |-> r.gender, address |-> r.address, phone |-> r.phone,
   email |-> r.email]

PersonRow(id, g, c, t, cur, d) ==
  [id |-> id, group |-> g, change |-> c, created_at |-> t, is_current |-> cur,
   last_name |-> d.last_name, first_name |-> d.first_name,
   middle_name |-> d.middle_name, birth_date |-> d.birth_date,
   gender |-> d.gender, address |-> d.address, phone |-> d.phone,
   email |-> d.email]

\* HistoryRow with valid_from taken from the new record instead of the old one.
HistoryRow_FromNow(id, g, c, prev, now_ts) ==
  [id |-> id, group |-> g, change |-> c,
   last_name |-> prev.last_name, first_name |-> prev.first_name,
   middle_name |-> prev.middle_name, birth_date |-> prev.birth_date,
   gender |-> prev.gender, address |-> prev.address, phone |-> prev.phone,
   email |-> prev.email,
   valid_from |-> now_ts, valid_to |-> now_ts]

\* HistoryRow closed at the old record's own creation time.
HistoryRow_ClosedAtStart(id, g, c, prev, now_ts) ==
  [id |-> id, group |-> g, change |-> c,
   last_name |-> prev.last_name, first_name |-> prev.first_name,
   middle_name |-> prev.middle_name, birth_date |-> prev.birth_date,
   gender |-> prev.gender, address |-> prev.address, phone |-> prev.phone,
   email |-> prev.email,
   valid_from |-> prev.created_at, valid_to |-> prev.created_at]

HistoryRow(id, g, c, prev, now_ts) ==
  [id |-> id, group |-> g, change |-> c,
   last_name |-> prev.last_name, first_name |-> prev.first_name,
   middle_name |-> prev.middle_name, birth_date |-> prev.birth_date,
   gender |-> prev.gender, address |-> prev.address, phone |-> prev.phone,
   email |-> prev.email,
   valid_from |-> prev.created_at, valid_to |-> now_ts]

\* Python truthiness of an optional string: None and "" are falsy.
Truthy(v) == v # None /\ v # ""

\* MinOf under order_by('-group_id'): the largest element.
MinOf_Descending(S) == CHOOSE x \in S : \A y \in S : x >= y

MinOf(S) == CHOOSE x \in S : \A y \in S : x <= y

\* ------------------------------------------------- find_matching_group
\* qs.filter(middle_name__isnull=True) or qs.filter(middle_name=middle_name)
MiddleNameMatch(r, d) ==
  IF d.middle_name = None THEN r.middle_name = None
  ELSE r.middle_name = d.middle_name

\* LastNameMatch with the surname filter applied to every gender.
LastNameMatch_AllGenders(r, d) ==
  r.last_name = d.last_name

\* if person_data['gender'] == Male: qs.filter(last_name=...)
LastNameMatch(r, d) ==
  d.gender = Male => r.last_name = d.last_name

\* ContactMatch without the "if phone:" / "if email:" guards.
ContactMatch_NoGuards(r, d) ==
  \/ r.address = d.address
  \/ r.phone = d.phone
  \/ r.email = d.email

\* ContactMatch without the address alternative.
ContactMatch_NoAddress(r, d) ==
  \/ Truthy(d.phone) /\ r.phone = d.phone
  \/ Truthy(d.email) /\ r.email = d.email

\* contact_q: address, or phone if supplied, or email if supplied
ContactMatch(r, d) ==
  \/ r.address = d.address
  \/ Truthy(d.phone) /\ r.phone = d.phone
  \/ Truthy(d.email) /\ r.email = d.email

\* Matches without the is_current=True filter.
Matches_AnyRow(r, d) ==
  /\ r.gender = d.gender
  /\ r.first_name = d.first_name
  /\ MiddleNameMatch(r, d)
  /\ LastNameMatch(r, d)
  /\ ContactMatch(r, d)

\* the rows the composed query selects
Matches(r, d) ==
  /\ r.is_current
  /\ r.gender = d.gender
  /\ r.first_name = d.first_name
  /\ MiddleNameMatch(r, d)
  /\ LastNameMatch(r, d)
  /\ ContactMatch(r, d)

\* .order_by('group_id').values_list('group_id').first()
find_matching_group(P, d) ==
  LET hit == {r.group : r \in {x \in P : Matches(x, d)}}
  IN  IF hit = {} THEN NoGroup ELSE MinOf(hit)

\* ResolveResults without the order_by: first() may yield any selected row.
ResolveResults_Unordered(P, d) ==
  LET hit == {r.group : r \in {x \in P : Matches(x, d)}}
  IN  IF hit = {} THEN {NoGroup} ELSE hit

\* The values one call of find_matching_group can return on the rows P:
\* first() of a query ordered by group_id, of which only group_id is read.
ResolveResults(P, d) == {find_matching_group(P, d)}

\* ---------------------------------------------------- get_person_as_of
AsOfRow(g, r) ==
  [group_id |-> g,
   last_name |-> r.last_name, first_name |-> r.first_name,
   middle_name |-> r.middle_name, birth_date |-> r.birth_date,
   gender |-> r.gender, address |-> r.address, phone |-> r.phone,
   email |-> r.email]

\* get_person_as_of without created_at__lte on the current row.
get_person_as_of_NoCutoff(P, H, g, ts) ==
  LET cur == {r \in P : r.group = g /\ r.is_current}
      his == {h \in H : h.group = g /\ h.valid_from <= ts /\ h.valid_to > ts}
  IN  IF cur # {}
      THEN {AsOfRow(g, r) : r \in {x \in cur :
                 \A y \in cur : y.created_at <= x.created_at}}
      ELSE IF his # {}
      THEN {AsOfRow(g, h) : h \in {x \in his :
                 \A y \in his : y.valid_from <= x.valid_from}}
      ELSE {}

\* get_person_as_of with valid_from__lt in place of valid_from__lte.
get_person_as_of_StrictFrom(P, H, g, ts) ==
  LET cur == {r \in P : r.group = g /\ r.is_current /\ r.created_at <= ts}
      his == {h \in H : h.group = g /\ h.valid_from < ts /\ h.valid_to > ts}
  IN  IF cur # {}
      THEN {AsOfRow(g, r) : r \in {x \in cur :
                 \A y \in cur : y.created_at <= x.created_at}}
      ELSE IF his # {}
      THEN {AsOfRow(g, h) : h \in {x \in his :
                 \A y \in his : y.valid_from <= x.valid_from}}
      ELSE {}

\* The set of values the call can return (one value unless the database has
\* to break a tie in the ORDER BY); {} stands for returning None.
get_person_as_of(P, H, g, ts) ==
  LET cur == {r \in P : r.group = g /\ r.is_current /\ r.created_at <= ts}
      his == {h \in H : h.group = g /\ h.valid_from <= ts /\ h.valid_to > ts}
  IN  IF cur # {}
      THEN {AsOfRow(g, r) : r \in {x \in cur :
                 \A y \in cur : y.created_at <= x.created_at}}
      ELSE IF his # {}
      THEN {AsOfRow(g, h) : h \in {x \in his :
                 \A y \in his : y.valid_from <= x.valid_from}}
      ELSE {}

\* ------------------------------------------------- get_person_history
\* get_person_history without the order_by: the rows in any order.
get_person_history_Unordered(H, g) ==
  LET rows == {h \in H : h.group = g}
      n    == Cardinality(rows)
  IN  {s \in [1..n -> rows] : \A i \in 1..n : \A j \in 1..n :
                                  s[i] = s[j] => i = j}

\* PersonHistory.objects.filter(group_id=group_id).order_by('valid_from'):
\* the sequences the query can return, rows with equal valid_from coming in
\* either order.
get_person_history(H, g) ==
  LET rows == {h \in H : h.group = g}
      n    == Cardinality(rows)
  IN  {s \in [1..n -> rows] :
         /\ \A i \in 1..n : \A j \in 1..n : s[i] = s[j] => i = j
         /\ \A i \in 1..n : \A j \in 1..n :
              i < j => s[i].valid_from <= s[j].valid_from}

\* ------------------------------------------------------- transactions
IdleTx ==
  [pc |-> "idle", data |-> None, change |-> NoChange, gid |-> NoGroup,
   group |-> NoGroup, now_ts |-> 0,
   wChanges |-> {}, wGroups |-> {}, wPersons |-> {}, wHistory |-> {},
   wFlips |-> {}, prev |-> {}]

\* Caller p is inside the atomic block: its transaction is open.
Active(p) == tx[p].pc \notin {"idle", "done"}

\* What caller p's statements read: committed rows, its own inserts and its
\* own updates.
Visible(p) ==
  {[r EXCEPT !.is_current = r.is_current /\ r.id \notin tx[p].wFlips] :
     r \in persons \cup tx[p].wPersons}

\* Entry into the atomic block; "if not change_set: create_change_set(...)",
\* which is ChangeSet.objects.create(author=..., reason=...).
\* cs = NoChange stands for a call made without a change set; a caller that
\* supplies one supplies a change set the store holds.
Begin(p, d, cs) ==
  /\ tx[p].pc = "idle"
  /\ calls < MaxCalls
  /\ calls' = calls + 1
  /\ IF cs = NoChange
     THEN /\ tx' = [tx EXCEPT ![p] = [IdleTx EXCEPT !.pc = "resolve",
                      !.data = d, !.change = seq.change,
                      !.wChanges = {seq.change}]]
          /\ seq' = [seq EXCEPT !.change = @ + 1]
     ELSE /\ tx' = [tx EXCEPT ![p] = [IdleTx EXCEPT !.pc = "resolve",
                      !.data = d, !.change = cs]]
          /\ UNCHANGED seq
  /\ UNCHANGED <<store, clock, fails, query>>

\* person_data['gender'], ['first_name'], ['last_name'] (for a male) or
\* ['address'] raises KeyError while find_matching_group builds its query.
RequiredMissing(d) ==
  \/ d.gender = Missing
  \/ d.first_name = Missing
  \/ d.gender = Male /\ d.last_name = Missing
  \/ d.address = Missing

\* group_id = PersonService.find_matching_group(person_data)
Resolve(p) ==
  /\ tx[p].pc = "resolve"
  /\ ~RequiredMissing(tx[p].data)
  /\ tx' = [tx EXCEPT ![p].pc = "group",
                      ![p].gid = find_matching_group(Visible(p), tx[p].data)]
  /\ UNCHANGED <<store, seq, clock, calls, fails, query>>

\* GroupFound that never takes the existing group.
GroupFound_Never(gid) == FALSE

\* "if group_id:" -- Python truthiness of Optional[int]
GroupFound(gid) == gid # NoGroup

\* if group_id: PersonGroup.objects.get(id=group_id)
\* else:        PersonGroup.objects.create()
GetOrCreateGroup(p) ==
  /\ tx[p].pc = "group"
  /\ IF GroupFound(tx[p].gid)
     THEN /\ tx[p].gid \in groups \cup tx[p].wGroups
          /\ tx' = [tx EXCEPT ![p].pc = "insert", ![p].group = tx[p].gid]
          /\ UNCHANGED seq
     ELSE /\ tx' = [tx EXCEPT ![p].pc = "insert", ![p].group = seq.group,
                              ![p].wGroups = {seq.group}]
          /\ seq' = [seq EXCEPT !.group = @ + 1]
  /\ UNCHANGED <<store, clock, calls, fails, query>>

\* now_ts = timezone.now(); person = Person.objects.create(...)
InsertPerson(p, t) ==
  /\ tx[p].pc = "insert"
  /\ t \in {clock, clock + 1} /\ t <= MaxTime
  /\ clock' = t
  /\ tx' = [tx EXCEPT ![p].pc = "prev", ![p].now_ts = t,
              ![p].wPersons = {PersonRow(seq.person, tx[p].group,
                                   tx[p].change, t, TRUE, tx[p].data)}]
  /\ seq' = [seq EXCEPT !.person = @ + 1]
  /\ UNCHANGED <<store, calls, fails, query>>

\* PrevCandidates without the group=group filter.
PrevCandidates_AnyGroup(p) ==
  {r \in Visible(p) : /\ r.is_current
                      /\ r \notin tx[p].wPersons}

\* the current rows of the group other than the new one
PrevCandidates(p) ==
  {r \in Visible(p) : /\ r.group = tx[p].group
                      /\ r.is_current
                      /\ r \notin tx[p].wPersons}

\* prev = Person.objects.filter(group=group, is_current=True)
\*          .exclude(id=person.id).order_by('-created_at').first()
\* "if prev:" falls through to the return when there is none.
FindPrev(p) ==
  /\ tx[p].pc = "prev"
  /\ LET cand == PrevCandidates(p)
     IN  IF cand = {}
         THEN tx' = [tx EXCEPT ![p].pc = "commit"]
         ELSE \E r \in cand :
                /\ \A x \in cand : x.created_at <= r.created_at
                /\ tx' = [tx EXCEPT ![p].pc = "history", ![p].prev = {r}]
  /\ UNCHANGED <<store, seq, clock, calls, fails, query>>

\* HistoryChange as "prev.change or person.change".
HistoryChange_PrevFirst(person, prev) ==
  IF prev.change # NoChange THEN prev.change ELSE person.change

\* change=person.change or prev.change
HistoryChange(person, prev) ==
  IF person.change # NoChange THEN person.change ELSE prev.change

\* PersonHistory.objects.create(...)
InsertHistory(p) ==
  /\ tx[p].pc = "history"
  /\ \E prev \in tx[p].prev : \E person \in tx[p].wPersons :
       tx' = [tx EXCEPT ![p].pc = "retire",
                ![p].wHistory = {HistoryRow(seq.history, tx[p].group,
                                    HistoryChange(person, prev), prev,
                                    tx[p].now_ts)}]
  /\ seq' = [seq EXCEPT !.history = @ + 1]
  /\ UNCHANGED <<store, clock, calls, fails, query>>

\* Retired with the flag never saved.
Retired_NoSave(prev) == {}

\* the ids the statement marks not current
Retired(prev) == {r.id : r \in prev}

\* prev.is_current = False; prev.save(update_fields=['is_current'])
\* The UPDATE waits while another open transaction holds the row's lock.
RetirePrev(p) ==
  /\ tx[p].pc = "retire"
  /\ \A q \in Procs \ {p} :
       Active(q) => tx[q].wFlips \cap Retired(tx[p].prev) = {}
  /\ tx' = [tx EXCEPT ![p].pc = "commit", ![p].wFlips = Retired(tx[p].prev)]
  /\ UNCHANGED <<store, seq, clock, calls, fails, query>>

\* CommittedPersons with the flag of every row rewritten by the UPDATE.
CommittedPersons_FlagRewritten(p) ==
  {[r EXCEPT !.is_current = r.id \notin tx[p].wFlips] :
     r \in persons} \cup tx[p].wPersons

\* The rows of the person table once caller p's writes are applied.
CommittedPersons(p) ==
  {[r EXCEPT !.is_current = r.is_current /\ r.id \notin tx[p].wFlips] :
     r \in persons} \cup tx[p].wPersons

\* Leaving the atomic block normally: "return person".
Commit(p) ==
  /\ tx[p].pc = "commit"
  /\ groups' = groups \cup tx[p].wGroups
  /\ persons' = CommittedPersons(p)
  /\ history' = history \cup tx[p].wHistory
  /\ changes' = changes \cup tx[p].wChanges
  /\ tx' = [tx EXCEPT ![p].pc = "done"]
  /\ UNCHANGED <<seq, clock, calls, fails, query>>

\* Rollback without the atomic block: the statements already run stay.
Rollback_KeepsWrites(p) ==
  [groups |-> groups \cup tx[p].wGroups,
   persons |-> persons \cup tx[p].wPersons,
   history |-> history \cup tx[p].wHistory,
   changes |-> changes \cup tx[p].wChanges]

\* What a rollback leaves of the four tables: none of caller p's writes.
Rollback(p) ==
  [groups |-> groups, persons |-> persons, history |-> history,
   changes |-> changes]

\* An exception raised by any statement inside the atomic block.
Fail(p) ==
  /\ Active(p)
  /\ fails < MaxFails
  /\ fails' = fails + 1
  /\ groups' = Rollback(p).groups
  /\ persons' = Rollback(p).persons
  /\ history' = Rollback(p).history
  /\ changes' = Rollback(p).changes
  /\ tx' = [tx EXCEPT ![p] = IdleTx]
  /\ UNCHANGED <<seq, clock, calls, query>>

\* The KeyError find_matching_group raises leaves the atomic block: the
\* call's change set insert, if it made one, is rolled back.
RaiseKeyError(p) ==
  /\ tx[p].pc = "resolve"
  /\ RequiredMissing(tx[p].data)
  /\ fails' = fails + 1
  /\ groups' = Rollback(p).groups
  /\ persons' = Rollback(p).persons
  /\ history' = Rollback(p).history
  /\ changes' = Rollback(p).changes
  /\ tx' = [tx EXCEPT ![p] = IdleTx]
  /\ UNCHANGED <<seq, clock, calls, query>>

\* The caller takes the returned Person.
Return(p) ==
  /\ tx[p].pc = "done"
  /\ tx' = [tx EXCEPT ![p] = IdleTx]
  /\ UNCHANGED <<store, seq, clock, calls, fails, query>>

\* ---------------------------------------------------- specifications
Init ==
  /\ groups = {} /\ persons = {} /\ history = {} /\ changes = {}
  /\ seq = [group |-> 1, person |-> 1, history |-> 1, change |-> 1]
  /\ clock = 1
  /\ calls = 0
  /\ fails = 0
  /\ tx = [p \in Procs |-> IdleTx]
  /\ query = <<>>

Step(p) ==
  \/ Resolve(p)
  \/ GetOrCreateGroup(p)
  \/ \E t \in 1..MaxTime : InsertPerson(p, t)
  \/ FindPrev(p)
  \/ InsertHistory(p)
  \/ RetirePrev(p)
  \/ Commit(p)
  \/ Fail(p)
  \/ Return(p)

BeginAny(p) ==
  \E d \in TxSnapshots : \E cs \in changes \cup {NoChange} : Begin(p, d, cs)

\* Any number of calls may run concurrently.
Next ==
  \/ \E p \in Procs : BeginAny(p)
  \/ \E p \in Procs : Step(p)

Spec == Init /\ [][Next]_vars

\* Completed calls only: a call begins when no other call is in progress.
BeginSerial(p) ==
  /\ \A q \in Procs : tx[q].pc = "idle"
  /\ BeginAny(p)

NextSeq ==
  \/ \E p \in Procs : BeginSerial(p)
  \/ \E p \in Procs : Step(p)

SpecSeq == Init /\ [][NextSeq]_vars

BeginUnchecked(p) ==
  /\ \A q \in Procs : tx[q].pc = "idle"
  /\ \E d \in TxSnapshots \cup InvalidSnapshots :
       \E cs \in changes \cup {NoChange} : Begin(p, d, cs)

NextUnchecked ==
  \/ \E p \in Procs : BeginUnchecked(p)
  \/ \E p \in Procs : Step(p)
  \/ \E p \in Procs : RaiseKeyError(p)

\* Completed calls whose person_data may lack a key: create_person passes
\* the dict on without looking at it.
SpecUnchecked == Init /\ [][NextUnchecked]_vars

\* find_matching_group called on its own (it is a public static method),
\* against the store one completed create_person(d0) leaves behind.
InitMatch ==
  \E d0 \in MatchSnapshots :
    /\ groups = {1}
    /\ persons = {PersonRow(1, 1, 1, 1, TRUE, d0)}
    /\ history = {}
    /\ changes = {1}
    /\ seq = [group |-> 2, person |-> 2, history |-> 1, change |-> 2]
    /\ clock = 1
    /\ calls = 1
    /\ fails = 0
    /\ tx = [p \in Procs |-> IdleTx]
    /\ query = <<>>

ResolveQuery(d) ==
  /\ query = <<>>
  /\ \E g \in ResolveResults(persons, d) : query' = <<d, g>>
  /\ UNCHANGED <<store, seq, clock, calls, fails, tx>>

\* The caller takes the result.
ReturnQuery ==
  /\ query # <<>>
  /\ query' = <<>>
  /\ UNCHANGED <<store, seq, clock, calls, fails, tx>>

NextMatch ==
  \/ \E d \in MatchSnapshots : ResolveQuery(d)
  \/ ReturnQuery

SpecMatch == InitMatch /\ [][NextMatch]_vars

\* The whole of create_person(d), called without a change set at now() = t
\* while no other call is in progress, as a function of the store S.
AfterCall(S, d, t) ==
  LET c    == S.seq.change
      gid  == find_matching_group(S.persons, d)
      g    == IF GroupFound(gid) THEN gid ELSE S.seq.group
      n    == PersonRow(S.seq.person, g, c, t, TRUE, d)
      cand == {r \in S.persons : r.group = g /\ r.is_current}
      prev == CHOOSE r \in cand : \A y \in cand : y.created_at <= r.created_at
  IN  [groups  |-> S.groups \cup {g},
       changes |-> S.changes \cup {c},
       persons |-> IF cand = {} THEN S.persons \cup {n}
                   ELSE {IF r.id \in Retired({prev})
                           THEN [r EXCEPT !.is_current = FALSE] ELSE r :
                         r \in S.persons} \cup {n},
       history |-> IF cand = {} THEN S.history
                   ELSE S.history \cup
                        {HistoryRow(S.seq.history, g, HistoryChange(n, prev),
                                    prev, t)},
       seq     |-> [change  |-> c + 1,
                    group   |-> IF GroupFound(gid) THEN S.seq.group
                                ELSE S.seq.group + 1,
                    person  |-> S.seq.person + 1,
                    history |-> IF cand = {} THEN S.seq.history
                                ELSE S.seq.history + 1]]

EmptyStore ==
  [groups |-> {}, changes |-> {}, persons |-> {}, history |-> {},
   seq |-> [group |-> 1, person |-> 1, history |-> 1, change |-> 1]]

\* The store two completed calls create_person(d0), create_person(d1) leave
\* behind: one group with a retired row, its history row and a current row,
\* or two groups with a current row each. One more call may begin on it.
InitPair ==
  \E d0 \in PairSnapshots : \E d1 \in PairSnapshots : \E t \in {1, 2} :
    LET S == AfterCall(AfterCall(EmptyStore, d0, 1), d1, t)
    IN  /\ groups = S.groups
        /\ persons = S.persons
        /\ history = S.history
        /\ changes = S.changes
        /\ seq = S.seq
        /\ clock = t
        /\ calls = MaxCalls - 1
        /\ fails = 0
        /\ tx = [p \in Procs |-> IdleTx]
        /\ query = <<>>

\* The caller repeats its last find_matching_group call and keeps the
\* earlier result next to the new one.
ResolveAgain ==
  /\ Len(query) = 2
  /\ \E g \in ResolveResults(persons, query[1]) :
       query' = <<query[1], g, query[2]>>
  /\ UNCHANGED <<store, seq, clock, calls, fails, tx>>

NextPair ==
  \/ \E d \in MatchSnapshots : ResolveQuery(d)
  \/ ResolveAgain
  \/ ReturnQuery

\* find_matching_group called on its own against a pair store.
SpecPair == InitPair /\ [][NextPair]_vars

BeginWide(p) ==
  /\ \A q \in Procs : tx[q].pc = "idle"
  /\ \E d \in PairSnapshots : \E cs \in changes \cup {NoChange} :
       Begin(p, d, cs)

NextApply ==
  \/ \E p \in Procs : BeginWide(p)
  \/ \E p \in Procs : Step(p)

\* One create_person call made on a pair store.
SpecApply == InitPair /\ [][NextApply]_vars

\* --------------------------------------------------------- properties
RowsOf(g) == {r \in persons : r.group = g}
CurrentOf(g) == {r \in persons : r.group = g /\ r.is_current}
RetiredOf(g) == {r \in persons : r.group = g /\ ~r.is_current}
HistoryOf(g) == {h \in history : h.group = g}
Times == 0..(MaxTime + 1)
Quiescent == \A p \in Procs : ~Active(p)

\* C1: after any sequence of completed, non-overlapping create_person calls
\* from an empty store, every group has at most one row with is_current.
C1_AtMostOneCurrent ==
  \A g \in groups : Cardinality(CurrentOf(g)) <= 1

\* A group in which a call has retired the previous current row.
C1_Witness ==
  /\ \A p \in Procs : tx[p].pc = "idle"
  /\ \E g \in groups : Cardinality(CurrentOf(g)) = 1 /\ RetiredOf(g) # {}

\* C2: two concurrent create_person calls with identical snapshots end with
\* both records in one and the same group, whatever the interleaving.
C2_SameGroupForIdentical ==
  \A p \in Procs : \A q \in Procs \ {p} :
    (tx[p].pc = "done" /\ tx[q].pc = "done" /\ tx[p].data = tx[q].data)
      => /\ tx[p].group = tx[q].group
         /\ Cardinality(tx[p].wGroups \cup tx[q].wGroups) <= 1

\* C3: two concurrent create_person calls that resolve to the same existing
\* group leave it as a serial order would: one current row, and one history
\* row per retired row.
C3_SerialOutcome ==
  \A p \in Procs : \A q \in Procs \ {p} :
    (/\ tx[p].pc = "done" /\ tx[q].pc = "done"
     /\ tx[p].gid # NoGroup /\ tx[p].gid = tx[q].gid)
      => /\ Cardinality(CurrentOf(tx[p].gid)) = 1
         /\ Cardinality(HistoryOf(tx[p].gid))
              = Cardinality(RetiredOf(tx[p].gid))

\* C4: a step that turns a committed row's is_current from true to false
\* also adds a history row of that group with the row's attributes,
\* valid_from = the row's created_at and valid_to = the created_at of the
\* record added by the same step; and no step changes or removes a history
\* row.
C4_Step ==
  /\ \A r \in persons :
       (r.is_current /\ [r EXCEPT !.is_current = FALSE] \in persons')
         => \E h \in history' \ history : \E n \in persons' \ persons :
              /\ h.group = r.group
              /\ n.group = r.group
              /\ n.is_current
              /\ Attrs(h) = Attrs(r)
              /\ h.valid_from = r.created_at
              /\ h.valid_to = n.created_at
  /\ history \subseteq history'

C4_HistoryComplete == [][C4_Step]_vars

\* A retired row, its history row and the record that replaced it.
C4_Witness ==
  \E r \in persons : \E h \in history : \E n \in persons :
    /\ ~r.is_current /\ n.is_current /\ n.group = r.group
    /\ h.group = r.group /\ Attrs(h) = Attrs(r) /\ Attrs(n) # Attrs(r)
    /\ h.valid_from = r.created_at /\ h.valid_to = n.created_at
    /\ h.valid_from < h.valid_to

\* C5: once the calls made have completed (non-decreasing timestamps, no
\* call left in progress), for every group with a row and every time T at or
\* after its first row's created_at, get_person_as_of returns a result, and
\* the result carries the attributes of a current or history row of the
\* group.
C5_TemporalCoverage ==
  Quiescent => \A g \in groups : \A T \in Times :
    (\E first \in persons : first.group = g /\ first.created_at <= T) =>
      LET res == get_person_as_of(persons, history, g, T)
      IN  /\ res # {}
          /\ \A x \in res :
               /\ x.group_id = g
               /\ \/ \E row \in persons :
                       /\ row.group = g /\ row.is_current
                       /\ Attrs(x) = Attrs(row)
                  \/ \E row \in history :
                       /\ row.group = g
                       /\ Attrs(x) = Attrs(row)

\* A time the history table answers: the current row is younger than T.
C5_Witness ==
  \E g \in groups : \E T \in Times :
    /\ \A p \in Procs : tx[p].pc = "idle"
    /\ CurrentOf(g) # {}
    /\ \A r \in CurrentOf(g) : r.created_at > T
    /\ get_person_as_of(persons, history, g, T) # {}

\* C6: once the calls made have completed and no call is left in progress,
\* when a group's records were installed at strictly increasing times
\* t1 < ... < tn, get_person_as_of(group, t) is the record installed at ti
\* for ti <= t < t(i+1), and the last one for t >= tn.
C6_StateAt ==
  Quiescent => \A g \in groups :
    (\A a \in persons : \A b \in persons :
        (a.group = g /\ b.group = g /\ a # b)
          => a.created_at # b.created_at)
      => \A r \in persons : \A T \in Times :
           (/\ r.group = g
            /\ r.created_at <= T
            /\ \A b \in persons :
                 (b.group = g /\ b.created_at > r.created_at)
                   => b.created_at > T)
             => get_person_as_of(persons, history, g, T) = {AsOfRow(g, r)}

\* Three records installed into one group at three different times, the
\* middle one differing from both neighbours.
C6_Witness ==
  \E g \in groups :
    \E a \in RowsOf(g) : \E b \in RowsOf(g) : \E c \in RowsOf(g) :
      /\ a.created_at < b.created_at /\ b.created_at < c.created_at
      /\ Attrs(a) # Attrs(b) /\ Attrs(b) # Attrs(c)
      /\ get_person_as_of(persons, history, g, b.created_at)
           = {AsOfRow(g, b)}
      /\ get_person_as_of(persons, history, g, a.created_at)
           = {AsOfRow(g, a)}

\* C7: a completed create_person(snapshot) returns a committed row with
\* is_current and the snapshot's attributes; its group is the one
\* find_matching_group gives in the store before the call when there is one,
\* and otherwise a group that did not exist, with no history row added.
C7_Step ==
  \A p \in Procs :
    (tx[p].pc = "commit" /\ tx'[p].pc = "done") =>
      LET g0 == find_matching_group(persons, tx[p].data)
      IN  \E n \in tx'[p].wPersons :
            /\ n \in persons' /\ n \notin persons
            /\ n.is_current
            /\ Attrs(n) = tx[p].data
            /\ IF g0 # NoGroup
               THEN n.group = g0 /\ groups' = groups
               ELSE /\ n.group \notin groups
                    /\ groups' = groups \cup {n.group}
                    /\ history' = history

C7_ApplyResult == [][C7_Step]_vars

\* A completed call that attached its record to an existing group.
C7_Witness ==
  \E p \in Procs :
    /\ tx[p].pc = "done"
    /\ tx[p].gid # NoGroup
    /\ tx[p].wHistory # {}
    /\ \E n \in tx[p].wPersons : n \in persons /\ n.group = tx[p].gid

\* C8: a create_person call that fails after the transaction began leaves
\* the committed groups, person rows, history rows and change sets as they
\* were, and while a call is in progress none of its writes is committed.
C8_Step ==
  \A p \in Procs :
    /\ (Active(p) /\ tx'[p].pc = "idle") =>
         /\ groups' = groups /\ persons' = persons
         /\ history' = history /\ changes' = changes
    /\ Active(p) =>
         /\ tx[p].wGroups \cap groups = {}
         /\ tx[p].wPersons \cap persons = {}
         /\ tx[p].wHistory \cap history = {}
         /\ tx[p].wChanges \cap changes = {}
         /\ \A r \in persons : \A n \in tx[p].wPersons : r.id # n.id

C8_Atomic == [][C8_Step]_vars

\* A call failed after it had inserted its history row: the id is used up
\* and no row carries it.
C8_Witness ==
  /\ \A p \in Procs : tx[p].pc = "idle"
  /\ fails > 0
  /\ history # {}
  /\ seq.history - 1 > Cardinality(history)

\* C9: of two snapshots that differ only in last_name, one of which matches
\* a stored current row, the other one does not match that row when the
\* gender is male and does match it otherwise.
C9_SurnameRule ==
  query # <<>> =>
    LET d == query[1]
        g == query[2]
    IN  \A r \in persons :
          (/\ r.is_current
           /\ r.last_name # d.last_name
           /\ find_matching_group(persons,
                 [d EXCEPT !.last_name = r.last_name]) = r.group)
            => IF d.gender = Male THEN g # r.group ELSE g = r.group

\* A male snapshot turned away by the surname alone.
C9_Witness ==
  /\ query # <<>>
  /\ query[1].gender = Male
  /\ query[2] = NoGroup
  /\ \E r \in persons :
       /\ r.is_current /\ r.last_name # query[1].last_name
       /\ find_matching_group(persons,
             [query[1] EXCEPT !.last_name = r.last_name]) = r.group

\* C10: a current row that agrees with the snapshot on gender, first_name,
\* middle_name (and last_name for males) is matched exactly when the
\* addresses are equal, or the snapshot's phone is non-empty and equal to the
\* row's, or the snapshot's email is non-empty and equal to the row's.
C10_ContactDisjunction ==
  query # <<>> =>
    LET d == query[1]
        g == query[2]
    IN  \A r \in persons :
          (/\ r.is_current
           /\ r.gender = d.gender
           /\ r.first_name = d.first_name
           /\ r.middle_name = d.middle_name
           /\ (d.gender = Male => r.last_name = d.last_name))
            => (g = r.group <=>
                  \/ r.address = d.address
                  \/ d.phone \notin {None, ""} /\ r.phone = d.phone
                  \/ d.email \notin {None, ""} /\ r.email = d.email)

\* A match made by the phone alone.
C10_Witness ==
  /\ query # <<>>
  /\ \E r \in persons :
       /\ query[2] = r.group
       /\ r.address # query[1].address
       /\ r.email # query[1].email
       /\ r.phone = query[1].phone

\* C11: find_matching_group returns a group id exactly when some row is
\* selected by the composed query, and the id returned is then the smallest
\* group id among the selected rows.
C11_SmallestGroup ==
  Len(query) >= 2 =>
    LET sel == {r \in persons : Matches(r, query[1])}
    IN  /\ query[2] = NoGroup <=> sel = {}
        /\ query[2] # NoGroup =>
             /\ \E r \in sel : r.group = query[2]
             /\ \A r \in sel : query[2] <= r.group

\* A snapshot that selects the current rows of two groups.
C11_Witness ==
  /\ Len(query) = 2
  /\ \E r1 \in persons : \E r2 \in persons :
       /\ r1.group < r2.group
       /\ Matches(r1, query[1]) /\ Matches(r2, query[1])
       /\ query[2] = r1.group

\* C12: a find_matching_group call changes no group, person row, history
\* row or change set, and a call repeated with the same snapshot, nothing
\* having been written in between, returns what the first call returned.
C12_Step ==
  (query' # query /\ query' # <<>>) =>
    /\ store' = store
    /\ Len(query') = 3 => query'[2] = query'[3]

C12_ReadOnlyRepeatable == [][C12_Step]_vars

\* A repeated call whose snapshot selects the current rows of two groups.
C12_Witness ==
  /\ Len(query) = 3
  /\ query[2] = query[3]
  /\ \E r1 \in persons : \E r2 \in persons :
       /\ r1.group # r2.group
       /\ Matches(r1, query[1]) /\ Matches(r2, query[1])

\* The intervals of the sequence s of history rows of group g follow one
\* another without gap or overlap and end where the current row begins.
Chained(g, s) ==
  /\ \A i \in 1..(Len(s) - 1) : s[i].valid_to = s[i + 1].valid_from
  /\ \A i \in 1..Len(s) : \A j \in 1..Len(s) :
       i < j => s[i].valid_to <= s[j].valid_from
  /\ Len(s) > 0 =>
       /\ CurrentOf(g) # {}
       /\ \A c \in CurrentOf(g) : s[Len(s)].valid_to = c.created_at

\* C13 as stated: once the calls made have completed, every sequence
\* get_person_history can return for a group is chained.
C13_HistoryChained ==
  Quiescent =>
    \A g \in groups : \A s \in get_person_history(history, g) : Chained(g, s)

\* C13, amended: the same for every group whose rows were created at
\* pairwise distinct times.
C13_HistoryChainedDistinct ==
  Quiescent =>
    \A g \in groups :
      (\A r1 \in RowsOf(g) : \A r2 \in RowsOf(g) :
          r1.created_at = r2.created_at => r1 = r2)
        => \A s \in get_person_history(history, g) : Chained(g, s)

\* A group with two history rows over three distinct creation times.
C13_Witness ==
  /\ Quiescent
  /\ \E g \in groups : \E s \in get_person_history(history, g) :
       /\ Len(s) = 2
       /\ s[1].valid_from < s[1].valid_to
       /\ s[1].valid_to = s[2].valid_from
       /\ s[2].valid_from < s[2].valid_to
       /\ \E c \in CurrentOf(g) : c.created_at = s[2].valid_to

\* C14: on the store completed calls leave behind, for a group id that has
\* no rows at all, and for a timestamp earlier than the created_at of every
\* row of the group, get_person_as_of can return nothing but None.
C14_NoneBeforeFirst ==
  Quiescent =>
    \A g \in 0..seq.group : \A T \in Times :
      (\A r \in RowsOf(g) : T < r.created_at)
        => get_person_as_of(persons, history, g, T) = {}

\* A group whose first record was not created at the earliest time, asked
\* about an earlier time, and a group id that was never used.
C14_Witness ==
  /\ \E g \in groups : \E T \in Times :
       /\ T >= 1
       /\ RowsOf(g) # {}
       /\ RetiredOf(g) # {}
       /\ \A r \in RowsOf(g) : T < r.created_at
       /\ get_person_as_of(persons, history, g, T) = {}
  /\ RowsOf(seq.group) = {}
  /\ get_person_as_of(persons, history, seq.group, MaxTime) = {}

\* C15: a create_person call whose snapshot lacks a required key has, up to
\* its rejection, inserted no change set, group, person row or history row.
C15_NoWriteBeforeRejection ==
  \A p \in Procs :
    (Active(p) /\ RequiredMissing(tx[p].data))
      => /\ tx[p].wChanges = {}
         /\ tx[p].wGroups = {}
         /\ tx[p].wPersons = {}
         /\ tx[p].wHistory = {}

\* C16: no step, of any interleaving of calls, removes a group, a person
\* row or a history row; a person row stays as it is or has is_current
\* turned from true to false, and a row that is not current stays so.
C16_Step ==
  /\ groups \subseteq groups'
  /\ history \subseteq history'
  /\ \A r \in persons :
       /\ \/ r \in persons'
          \/ r.is_current /\ [r EXCEPT !.is_current = FALSE] \in persons'
       /\ ~r.is_current =>
            \A n \in persons' : n.id = r.id => ~n.is_current

C16_NothingRemoved == [][C16_Step]_vars

\* A group with two retired rows: the first one stayed retired while a
\* later call retired the second.
C16_Witness ==
  \E g \in groups :
    /\ Cardinality(RetiredOf(g)) = 2
    /\ Cardinality(HistoryOf(g)) = 2
    /\ Cardinality(CurrentOf(g)) = 1

\* The attributes of the person or history row x satisfy the matching
\* predicate for the snapshot d.
Satisfies(x, d) ==
  /\ x.gender = d.gender
  /\ x.first_name = d.first_name
  /\ MiddleNameMatch(x, d)
  /\ LastNameMatch(x, d)
  /\ ContactMatch(x, d)

\* The snapshot d is matched by a retired row or a history row of the
\* store, and by none of its current rows.
OnlyPastMatches(d) ==
  /\ \E x \in {r \in persons : ~r.is_current} \cup history : Satisfies(x, d)
  /\ \A r \in persons : r.is_current => ~Satisfies(r, d)

\* C17: when the snapshot of a call is matched only by retired rows or
\* history rows, its find_matching_group step yields None and its next step
\* creates a group that did not exist.
C17_Step ==
  \A p \in Procs :
    (Active(p) /\ OnlyPastMatches(tx[p].data)) =>
      /\ (tx[p].pc = "resolve" /\ tx'[p].pc = "group")
           => tx'[p].gid = NoGroup
      /\ (tx[p].pc = "group" /\ tx'[p].pc = "insert")
           => /\ tx'[p].group \notin groups
              /\ tx'[p].wGroups = {tx'[p].group}

C17_OnlyCurrentRows == [][C17_Step]_vars

\* A completed call that created a group although a retired row and its
\* history row match the snapshot.
C17_Witness ==
  \E p \in Procs :
    /\ tx[p].pc = "done"
    /\ tx[p].gid = NoGroup
    /\ tx[p].group \in groups
    /\ \E r \in persons : ~r.is_current /\ Satisfies(r, tx[p].data)
    /\ \E h \in history : Satisfies(h, tx[p].data)
    /\ \A r \in persons \ tx[p].wPersons :
         r.is_current => ~Satisfies(r, tx[p].data)

\* C18: the history row a step adds for the row it retires references the
\* change set of the record added by the same step when that record has
\* one, and the change set of the retired row otherwise.
C18_Step ==
  \A h \in history' \ history : \A n \in persons' \ persons :
    \A r \in persons :
      (/\ n.is_current
       /\ r.is_current
       /\ r.group = h.group
       /\ [r EXCEPT !.is_current = FALSE] \in persons')
        => /\ n.change # NoChange => h.change = n.change
           /\ n.change = NoChange => h.change = r.change

C18_HistoryChangeSet == [][C18_Step]_vars

\* A history row that references the change set of the record that replaced
\* the retired row, the retired row having another one.
C18_Witness ==
  \E h \in history : \E r \in persons : \E n \in persons :
    /\ ~r.is_current /\ r.group = h.group /\ n.group = h.group
    /\ Attrs(h) = Attrs(r)
    /\ h.valid_from = r.created_at /\ h.valid_to = n.created_at
    /\ n.id = r.id + 1
    /\ h.change = n.change
    /\ h.change # r.change

\* The person row inserted last.
LastRow == CHOOSE r \in persons : \A x \in persons : x.id <= r.id

\* C19: on the store a committing call leaves behind, find_matching_group
\* of the call's snapshot returns the group of the record the call added;
\* and the next call, when it carries the snapshot of the record inserted
\* last, takes that record's group and creates none.
C19_Step ==
  /\ \A p \in Procs :
       (tx[p].pc = "commit" /\ tx'[p].pc = "done")
         => \A n \in tx[p].wPersons :
              find_matching_group(persons', tx[p].data) = n.group
  /\ \A q \in Procs :
       (/\ tx[q].pc = "group" /\ tx'[q].pc = "insert"
        /\ persons # {}
        /\ Attrs(LastRow) = tx[q].data)
         => /\ tx'[q].group = LastRow.group
            /\ tx'[q].wGroups = {}

C19_ReapplySameGroup == [][C19_Step]_vars

\* A completed call that carried the snapshot of the record before it and
\* joined that record's group, which the snapshot still resolves to.
C19_Witness ==
  \E q \in Procs : \E r \in persons : \E n \in tx[q].wPersons :
    /\ tx[q].pc = "done"
    /\ n \in persons
    /\ r.id + 1 = n.id
    /\ Attrs(r) = tx[q].data
    /\ r.group = n.group
    /\ tx[q].wGroups = {}
    /\ Cardinality(groups) = 2
    /\ find_matching_group(persons, tx[q].data) = n.group

\* C20: the commit of a call whose record goes to group G leaves the person
\* rows and history rows of every other group exactly as they were, adds
\* none to them, and turns is_current off on at most one row of G.
C20_Step ==
  \A p \in Procs :
    (tx[p].pc = "commit" /\ tx'[p].pc = "done") =>
      LET G == tx[p].group
      IN  /\ {r \in persons : r.group # G} = {r \in persons' : r.group # G}
          /\ {h \in history : h.group # G} = {h \in history' : h.group # G}
          /\ Cardinality({r \in persons : /\ r.group = G
                                          /\ r.is_current
                                          /\ r \notin persons'}) <= 1

C20_OtherGroupsUntouched == [][C20_Step]_vars

\* A completed call that retired one row of its group while another group
\* holds a current row.
C20_Witness ==
  \E p \in Procs :
    /\ tx[p].pc = "done"
    /\ Cardinality(tx[p].wFlips) = 1
    /\ Cardinality(RetiredOf(tx[p].group)) = 1
    /\ \E r \in persons : r.group # tx[p].group /\ r.is_current
====
